---- MODULE Spec2Model ----
(***************************************************************************)
(* Model of the scaffoldcreator MAP Client step: the ScaffoldCreatorModel  *)
(* editing stack and parameter-set tracking, the done/settings sequence of *)
(* MasterModel, the Done button of ScaffoldCreatorWidget and the port data *)
(* of the ScaffoldCreator step.                                            *)
(*                                                                         *)
(* The scaffoldmaker library (ScaffoldPackage, scaffold types) and Zinc    *)
(* are external: a scaffold package is the record of the fields its        *)
(* equality compares (type, settings, mesh edits, transformation), and the *)
(* generated region is the record of what generate() put into it.          *)
(***************************************************************************)
EXTENDS Integers, Sequences, FiniteSets, TLC

(***************************************************************************)
(* Bounds                                                                  *)
(***************************************************************************)
\* largest value of an integer scaffold option
MaxN == 2
\* number of distinct node-edit contents of a region
MaxEdit == 1
\* largest element identifier that can be deleted
MaxElem == 1
\* number of distinct non-identity rotations
MaxRot == 1

(***************************************************************************)
(* scaffoldmaker: scaffold types, their options and parameter sets         *)
(***************************************************************************)
NoPkg == [type |-> "None"]

NoName == "None"

\* _region is None
NoRegion == [exists |-> FALSE, edits |-> 0, transformed |-> FALSE]

AllScaffoldTypes == <<"Box", "Tube", "Heart", "Ring">>

DefaultScaffoldType == "Box"

\* ScaffoldPackage.__init__ with given settings: no edits, identity transformation
ScaffoldPackage(scaffoldType, scaffoldSettings) ==
    [type |-> scaffoldType, settings |-> scaffoldSettings, meshEdits |-> 0, rotation |-> 0]

ParameterSetNames(scaffoldType) ==
    CASE scaffoldType = "Box" -> <<"Default", "Fine">>
      [] scaffoldType = "Tube" -> <<"Default">>
      [] scaffoldType = "Heart" -> <<"Default", "Human">>
      [] scaffoldType = "Ring" -> <<"Default">>

\* Box: n elements, of which m are refined (m <= n); Tube: k = 1 segment;
\* Heart: a nested scaffold package; Ring: a = 2 elements around, which is
\* the only number it works with, of which b are refined
DefaultOptions(scaffoldType, parameterSetName) ==
    CASE scaffoldType = "Box" ->
            IF parameterSetName = "Fine" THEN [n |-> 2, m |-> 2] ELSE [n |-> 1, m |-> 1]
      [] scaffoldType = "Tube" ->
            [k |-> 1]
      [] scaffoldType = "Heart" ->
            [sub |-> IF parameterSetName = "Human"
                     THEN ScaffoldPackage("Box", [n |-> 2, m |-> 2])
                     ELSE ScaffoldPackage("Tube", [k |-> 1])]
      [] scaffoldType = "Ring" ->
            [a |-> 2, b |-> 2]

\* options holding a nested ScaffoldPackage
PackageOptionNames(scaffoldType) ==
    IF scaffoldType = "Heart" THEN {"sub"} ELSE {}

\* options holding an int
IntOptionNames(scaffoldType) ==
    CASE scaffoldType = "Box" -> {"n", "m"}
      [] scaffoldType = "Tube" -> {"k"}
      [] scaffoldType = "Heart" -> {}
      [] scaffoldType = "Ring" -> {"a", "b"}

OptionValidScaffoldTypes(parentType, optionName) == {"Tube", "Box"}

OptionScaffoldTypeParameterSetNames(parentType, optionName, scaffoldType) ==
    ParameterSetNames(scaffoldType)

OptionScaffoldPackage(parentType, optionName, scaffoldType, parameterSetName) ==
    ScaffoldPackage(scaffoldType, DefaultOptions(scaffoldType, parameterSetName))

Clamp(v) == IF v < 1 THEN 1 ELSE IF v > MaxN THEN MaxN ELSE v

\* scaffoldType.checkOptions(settings): limits values, fixes dependent options;
\* result: the settings as corrected and whether dependent options changed
CheckOptions(scaffoldType, settings) ==
    CASE scaffoldType = "Box" ->
            LET n1 == Clamp(settings.n)
                m1 == Clamp(settings.m)
            IN  IF m1 > n1
                THEN [settings |-> [n |-> n1, m |-> n1], dependentChanges |-> TRUE]
                ELSE [settings |-> [n |-> n1, m |-> m1], dependentChanges |-> FALSE]
      [] scaffoldType = "Tube" ->
            [settings |-> [settings EXCEPT !.k = 1], dependentChanges |-> FALSE]
      [] scaffoldType = "Ring" ->
            \* b is limited by a as given, then a is set to the number that works
            LET b1 == Clamp(IF settings.b > settings.a THEN settings.a ELSE settings.b)
            IN  [settings |-> [a |-> 2, b |-> b1], dependentChanges |-> b1 # settings.b]
      [] OTHER -> [settings |-> settings, dependentChanges |-> FALSE]

(***************************************************************************)
(* Text of an option as typed in a line edit: a sequence of characters     *)
(***************************************************************************)
DigitChars == <<"0", "1", "2", "3", "4", "5", "6", "7", "8", "9">>

IsDigit(c) == \E i \in 1..10 : DigitChars[i] = c

DigitValue(c) == (CHOOSE i \in 1..10 : DigitChars[i] = c) - 1

RECURSIVE DigitsValue(_)
DigitsValue(s) ==
    IF Len(s) = 0 THEN 0
    ELSE 10 * DigitsValue(SubSeq(s, 1, Len(s) - 1)) + DigitValue(s[Len(s)])

AllDigits(s) == Len(s) > 0 /\ \A i \in 1..Len(s) : IsDigit(s[i])

\* Python int(text): optional sign then digits, else ValueError
ParseInt(text) ==
    IF AllDigits(text) THEN [ok |-> TRUE, value |-> DigitsValue(text)]
    ELSE IF Len(text) > 1 /\ text[1] = "-" /\ AllDigits(Tail(text))
         THEN [ok |-> TRUE, value |-> 0 - DigitsValue(Tail(text))]
    ELSE IF Len(text) > 1 /\ text[1] = "+" /\ AllDigits(Tail(text))
         THEN [ok |-> TRUE, value |-> DigitsValue(Tail(text))]
    ELSE [ok |-> FALSE, value |-> 0]

OptionTexts ==
    {<<DigitChars[i]>> : i \in 1..(MaxN + 2)} \cup {<<"-", "1">>, <<"x">>, <<>>}

(***************************************************************************)
(* ScaffoldCreatorModel: an object is the record cm of its fields          *)
(*   scaffoldPackages, scaffoldPackageOptionNames, parameterSetName,       *)
(*   customScaffoldPackage, unsavedNodeEdits, deleteElementRanges, region  *)
(*   (whether it exists, the content of its meshEdits group, whether the   *)
(*   transformation has been applied to its coordinates),                  *)
(* and of the record of what the running operation has done so far         *)
(*   callbacks: invocations of the custom-parameters callback,             *)
(*   refreshed: what each of these invocations showed in the widget,       *)
(*   generated: _generateMesh ran, genPending: it ran with node edits      *)
(*   pending, raised: the operation ended in an exception.                 *)
(***************************************************************************)
Depth(cm) == Len(cm.scaffoldPackages)

Top(cm) == cm.scaffoldPackages[Depth(cm)]

\* start of a public operation on the model c
Begin(c) ==
    [scaffoldPackages |-> c.scaffoldPackages,
     scaffoldPackageOptionNames |-> c.scaffoldPackageOptionNames,
     parameterSetName |-> c.parameterSetName,
     customScaffoldPackage |-> c.customScaffoldPackage,
     unsavedNodeEdits |-> c.unsavedNodeEdits,
     deleteElementRanges |-> c.deleteElementRanges,
     region |-> c.region,
     callbacks |-> 0, refreshed |-> {},
     generated |-> FALSE, genPending |-> FALSE, raised |-> FALSE]

\* the model at the end of the operation
Model(cm) ==
    [scaffoldPackages |-> cm.scaffoldPackages,
     scaffoldPackageOptionNames |-> cm.scaffoldPackageOptionNames,
     parameterSetName |-> cm.parameterSetName,
     customScaffoldPackage |-> cm.customScaffoldPackage,
     unsavedNodeEdits |-> cm.unsavedNodeEdits,
     deleteElementRanges |-> cm.deleteElementRanges,
     region |-> cm.region]

\* the package being edited is changed in place
SetTopInPlace(cm, p) ==
    [cm EXCEPT !.scaffoldPackages[Depth(cm)] = p]

\* another package object becomes the package being edited
ReplaceTop(cm, p) ==
    [cm EXCEPT !.scaffoldPackages[Depth(cm)] = p]

\* what exnodeStringFromGroup(region, 'meshEdits', ...) serialises: the
\* coordinates of the edited nodes; a negative number stands for the content
\* with the transformation applied to the coordinates
ExnodeStringFromGroup(region) ==
    IF region.transformed THEN 0 - region.edits ELSE region.edits

UpdateScaffoldEdits(cm) ==
    IF cm.unsavedNodeEdits
    THEN [SetTopInPlace(cm, [Top(cm) EXCEPT !.meshEdits = ExnodeStringFromGroup(cm.region)])
             EXCEPT !.unsavedNodeEdits = FALSE]
    ELSE cm

\* mutant: the custom package is copied without bringing its edits up to date
SaveCustom_NoUpdate(cm) ==
    [cm EXCEPT !.customScaffoldPackage = Top(cm)]

SaveCustomScaffoldPackage(cm) ==
    LET cm1 == UpdateScaffoldEdits(cm)
    IN  [cm1 EXCEPT !.customScaffoldPackage = Top(cm1)]

GetParentScaffoldType(cm) ==
    IF Depth(cm) > 1 THEN cm.scaffoldPackages[Depth(cm) - 1].type ELSE NoName

EditingRootScaffoldPackage(cm) == Depth(cm) = 1

GetEditScaffoldParameterSetNames(cm) ==
    IF EditingRootScaffoldPackage(cm)
    THEN ParameterSetNames(cm.scaffoldPackages[1].type)
    ELSE OptionScaffoldTypeParameterSetNames(GetParentScaffoldType(cm),
            cm.scaffoldPackageOptionNames[Depth(cm)], Top(cm).type)

GetDefaultScaffoldPackageForParameterSetName(cm, parameterSetName) ==
    IF EditingRootScaffoldPackage(cm)
    THEN ScaffoldPackage(cm.scaffoldPackages[1].type,
                         DefaultOptions(cm.scaffoldPackages[1].type, parameterSetName))
    ELSE OptionScaffoldPackage(GetParentScaffoldType(cm),
            cm.scaffoldPackageOptionNames[Depth(cm)], Top(cm).type, parameterSetName)

GetAvailableParameterSetNames(cm) ==
    IF cm.customScaffoldPackage # NoPkg
    THEN <<"Custom">> \o GetEditScaffoldParameterSetNames(cm)
    ELSE GetEditScaffoldParameterSetNames(cm)

\* widget _refreshParameterSetNames: the names and the current name the combo
\* box is filled with
RefreshParameterSetNames(cm) ==
    [names |-> GetAvailableParameterSetNames(cm), current |-> cm.parameterSetName]

\* the custom-parameters callback, the widget's _customParametersChange;
\* previous is the parameter set name _useCustomScaffoldPackage started with
CustomParametersChange(cm, previous) ==
    [cm EXCEPT !.callbacks = @ + 1,
               !.refreshed = @ \cup {[shown |-> RefreshParameterSetNames(cm),
                                       previous |-> previous]}]

\* mutant: the callback is invoked at every call
UseCustom_AlwaysNotifies(cm) ==
    CustomParametersChange(
        [SaveCustomScaffoldPackage(cm) EXCEPT !.parameterSetName = "Custom"],
        cm.parameterSetName)

UseCustomScaffoldPackage(cm) ==
    IF cm.customScaffoldPackage = NoPkg \/ cm.parameterSetName # "Custom"
    THEN CustomParametersChange(
             [SaveCustomScaffoldPackage(cm) EXCEPT !.parameterSetName = "Custom"],
             cm.parameterSetName)
    ELSE cm

\* scaffoldPackage.generate(region) and deleteElementsInRanges: a new region
\* built from the type and settings, with the package's mesh edits replayed
GenerateMesh(cm) ==
    [cm EXCEPT !.region = [exists |-> TRUE, edits |-> Top(cm).meshEdits,
                           transformed |-> FALSE],
               !.generated = TRUE,
               !.genPending = @ \/ cm.unsavedNodeEdits]

\* the last name of the list (first of reversed) whose default package equals p
RECURSIVE LastMatch(_, _, _)
LastMatch(cm, names, i) ==
    IF i = 0 THEN NoName
    ELSE IF GetDefaultScaffoldPackageForParameterSetName(cm, names[i]) = Top(cm)
         THEN names[i]
         ELSE LastMatch(cm, names, i - 1)

\* mutant: a package that matches no predefined set is named 'Custom' without
\* being stored as the custom package
CheckCustom_NoSave(cm) ==
    LET cm1 == [cm EXCEPT !.customScaffoldPackage = NoPkg,
                          !.unsavedNodeEdits = FALSE,
                          !.parameterSetName = NoName]
        names == GetEditScaffoldParameterSetNames(cm1)
        found == LastMatch(cm1, names, Len(names))
    IN  IF found # NoName
        THEN [cm1 EXCEPT !.parameterSetName = found]
        ELSE [cm1 EXCEPT !.parameterSetName = "Custom", !.callbacks = @ + 1]

CheckCustomParameterSet(cm) ==
    LET cm1 == [cm EXCEPT !.customScaffoldPackage = NoPkg,
                          !.unsavedNodeEdits = FALSE,
                          !.parameterSetName = NoName]
        names == GetEditScaffoldParameterSetNames(cm1)
        found == LastMatch(cm1, names, Len(names))
    IN  IF found # NoName
        THEN [cm1 EXCEPT !.parameterSetName = found]
        ELSE UseCustomScaffoldPackage(cm1)

ClearMeshEdits(cm) ==
    [SetTopInPlace(cm, [Top(cm) EXCEPT !.meshEdits = 0])
        EXCEPT !.unsavedNodeEdits = FALSE, !.region.edits = 0]

SetScaffoldType(cm, scaffoldType) ==
    LET cm1 == IF Depth(cm) = 1
               THEN ReplaceTop(cm, ScaffoldPackage(scaffoldType,
                        DefaultOptions(scaffoldType, ParameterSetNames(scaffoldType)[1])))
               ELSE ReplaceTop(cm, OptionScaffoldPackage(GetParentScaffoldType(cm),
                        cm.scaffoldPackageOptionNames[Depth(cm)], scaffoldType,
                        ParameterSetNames(scaffoldType)[1]))
        cm2 == [cm1 EXCEPT !.customScaffoldPackage = NoPkg, !.unsavedNodeEdits = FALSE]
    IN  GenerateMesh([cm2 EXCEPT !.parameterSetName = GetEditScaffoldParameterSetNames(cm2)[1]])

GetScaffoldTypeByName(name) ==
    IF \E i \in 1..Len(AllScaffoldTypes) : AllScaffoldTypes[i] = name THEN name ELSE NoName

SetScaffoldTypeByName(cm0, name) ==
    LET cm == Begin(cm0)
        scaffoldType == GetScaffoldTypeByName(name)
    IN  IF scaffoldType = NoName THEN cm
        ELSE IF GetParentScaffoldType(cm) # NoName
                /\ scaffoldType \notin OptionValidScaffoldTypes(GetParentScaffoldType(cm),
                                           cm.scaffoldPackageOptionNames[Depth(cm)])
             THEN [cm EXCEPT !.raised = TRUE]
        ELSE IF scaffoldType # Top(cm).type THEN SetScaffoldType(cm, scaffoldType)
        ELSE cm

EditScaffoldPackageOption(cm0, optionName) ==
    LET cm == Begin(cm0)
    IN  IF optionName \notin PackageOptionNames(Top(cm).type)
        THEN [cm EXCEPT !.raised = TRUE]
        ELSE LET cm1 == ClearMeshEdits(cm)
                 cm2 == [cm1 EXCEPT
                            !.scaffoldPackages = Append(@, Top(cm1).settings[optionName]),
                            !.scaffoldPackageOptionNames = Append(@, optionName)]
             IN  GenerateMesh(CheckCustomParameterSet(cm2))

\* mutants: the option name is not popped; the pending node edits are not captured
EndEdit_KeepsOptionName(cm0) ==
    LET cm == Begin(cm0)
    IN  IF ~(Depth(cm) > 1)
        THEN [cm EXCEPT !.raised = TRUE]
        ELSE LET cm1 == UpdateScaffoldEdits(cm)
                 d == Depth(cm1)
                 optionName == cm1.scaffoldPackageOptionNames[d]
                 scaffoldPackage == cm1.scaffoldPackages[d]
                 cm2 == [cm1 EXCEPT !.scaffoldPackages = SubSeq(@, 1, d - 1)]
                 cm3 == [cm2 EXCEPT !.scaffoldPackages[d - 1].settings[optionName] =
                                        scaffoldPackage]
             IN  GenerateMesh(CheckCustomParameterSet(cm3))

EndEdit_NoCapture(cm0) ==
    LET cm == Begin(cm0)
    IN  IF ~(Depth(cm) > 1)
        THEN [cm EXCEPT !.raised = TRUE]
        ELSE LET d == Depth(cm)
                 optionName == cm.scaffoldPackageOptionNames[d]
                 scaffoldPackage == cm.scaffoldPackages[d]
                 cm2 == [cm EXCEPT
                            !.scaffoldPackages = SubSeq(@, 1, d - 1),
                            !.scaffoldPackageOptionNames = SubSeq(@, 1, d - 1)]
                 cm3 == [cm2 EXCEPT !.scaffoldPackages[d - 1].settings[optionName] =
                                        scaffoldPackage]
             IN  GenerateMesh(CheckCustomParameterSet(cm3))

EndEditScaffoldPackageOption(cm0) ==
    LET cm == Begin(cm0)
    IN  IF ~(Depth(cm) > 1)
        THEN [cm EXCEPT !.raised = TRUE]
        ELSE LET cm1 == UpdateScaffoldEdits(cm)
                 d == Depth(cm1)
                 optionName == cm1.scaffoldPackageOptionNames[d]
                 scaffoldPackage == cm1.scaffoldPackages[d]
                 cm2 == [cm1 EXCEPT
                            !.scaffoldPackages = SubSeq(@, 1, d - 1),
                            !.scaffoldPackageOptionNames = SubSeq(@, 1, d - 1)]
                 cm3 == [cm2 EXCEPT !.scaffoldPackages[d - 1].settings[optionName] =
                                        scaffoldPackage]
             IN  GenerateMesh(CheckCustomParameterSet(cm3))

SetParameterSetName(cm0, parameterSetName) ==
    LET cm == Begin(cm0)
        cm1 == IF cm.parameterSetName = "Custom" THEN SaveCustomScaffoldPackage(cm) ELSE cm
        cm2 == IF parameterSetName = "Custom"
               THEN ReplaceTop(cm1, cm1.customScaffoldPackage)
               ELSE ReplaceTop(cm1,
                        GetDefaultScaffoldPackageForParameterSetName(cm1, parameterSetName))
    IN  GenerateMesh([cm2 EXCEPT !.parameterSetName = parameterSetName,
                                 !.unsavedNodeEdits = FALSE])

\* mutant: a text that does not parse is taken as the number 0
SetScaffoldOption_InvalidAsZero(cm0, key, value) ==
    LET cm == Begin(cm0)
        settings == Top(cm).settings
        oldValue == settings[key]
        checked == CheckOptions(Top(cm).type,
                       [settings EXCEPT ![key] = ParseInt(value).value])
        cm1 == SetTopInPlace(cm, [Top(cm) EXCEPT !.settings = checked.settings])
    IN  [cm |-> IF checked.settings[key] # oldValue
                THEN GenerateMesh(UseCustomScaffoldPackage(ClearMeshEdits(cm1)))
                ELSE cm1,
         result |-> IF checked.dependentChanges THEN "True" ELSE "False"]

\* result of setScaffoldOption: the model and the value returned
\* ("None" for the bare return after an invalid value)
SetScaffoldOption(cm0, key, value) ==
    LET cm == Begin(cm0)
        settings == Top(cm).settings
        oldValue == settings[key]
        parsed == ParseInt(value)
    IN  IF ~parsed.ok
        THEN [cm |-> cm, result |-> "None"]
        ELSE LET checked == CheckOptions(Top(cm).type,
                                [settings EXCEPT ![key] = parsed.value])
                 cm1 == SetTopInPlace(cm, [Top(cm) EXCEPT !.settings = checked.settings])
             IN  [cm |-> IF checked.settings[key] # oldValue
                         THEN GenerateMesh(UseCustomScaffoldPackage(ClearMeshEdits(cm1)))
                         ELSE cm1,
                  result |-> IF checked.dependentChanges THEN "True" ELSE "False"]

\* getOrCreateMeshEditsNodesetGroup, followed by the caller's change of the node:
\* the content of the region's meshEdits group becomes e
GetOrCreateMeshEditsNodesetGroup(cm0, e) ==
    LET cm == Begin(cm0)
    IN  [cm EXCEPT !.unsavedNodeEdits = TRUE, !.region.edits = e]

\* ScaffoldPackage.setRotation: True when the value changed
SetRotation(cm0, rotation) ==
    LET cm == Begin(cm0)
    IN  IF Top(cm).rotation # rotation
        THEN SetTopInPlace(cm, [Top(cm) EXCEPT !.rotation = rotation])
        ELSE cm

SetDeleteElementsRanges(cm0, elementRanges) ==
    LET cm == Begin(cm0)
        changed == cm.deleteElementRanges # elementRanges
        cm1 == [cm EXCEPT !.deleteElementRanges = elementRanges]
    IN  IF changed THEN GenerateMesh(UpdateScaffoldEdits(cm1)) ELSE cm1

DeleteElementsSelection(cm0, selection) ==
    LET cm == Begin(cm0)
        elementRanges == cm.deleteElementRanges \cup selection
    IN  IF selection # {}
        THEN LET cm1 == [cm EXCEPT !.deleteElementRanges = elementRanges]
             IN  IF elementRanges # cm.deleteElementRanges THEN GenerateMesh(cm1) ELSE cm1
        ELSE cm

\* applyTransformation: e is the content of the meshEdits group once all
\* nodes carry the transformed coordinates
ApplyTransformation(cm0, e) ==
    LET cm == Begin(cm0)
    IN  IF Top(cm).rotation # 0
        THEN LET cm1 == SetTopInPlace(cm, [Top(cm) EXCEPT !.rotation = 0])
                 cm2 == [cm1 EXCEPT !.unsavedNodeEdits = TRUE, !.region.edits = e]
             IN  CheckCustomParameterSet(UpdateScaffoldEdits(cm2))
        ELSE cm

\* performInteractiveFunction: the function of the scaffold type changes the
\* settings to newSettings and, when nodesChanged, the nodes so that the
\* meshEdits group holds e
PerformInteractiveFunction(cm0, newSettings, nodesChanged, e) ==
    LET cm == Begin(cm0)
        cm1 == SetTopInPlace(cm, [Top(cm) EXCEPT !.settings = newSettings])
        cm2 == IF nodesChanged
               THEN [cm1 EXCEPT !.unsavedNodeEdits = TRUE, !.region.edits = e]
               ELSE IF cm1.region.edits = 0 THEN ClearMeshEdits(cm1) ELSE cm1
    IN  CheckCustomParameterSet(UpdateScaffoldEdits(cm2))

\* setSettings for a settings dictionary holding scaffoldPackage and
\* deleteElementRanges
SetSettings(cm0, scaffoldPackage, elementRanges) ==
    LET cm == Begin(cm0)
        cm1 == [cm EXCEPT !.deleteElementRanges = elementRanges,
                          !.scaffoldPackages = <<scaffoldPackage>>,
                          !.scaffoldPackageOptionNames = <<NoName>>]
    IN  GenerateMesh(CheckCustomParameterSet(cm1))

\* __init__
InitCreator ==
    LET scaffoldPackage == ScaffoldPackage(DefaultScaffoldType,
            DefaultOptions(DefaultScaffoldType, ParameterSetNames(DefaultScaffoldType)[1]))
    IN  [scaffoldPackages |-> <<scaffoldPackage>>,
         scaffoldPackageOptionNames |-> <<NoName>>,
         parameterSetName |-> ParameterSetNames(DefaultScaffoldType)[1],
         customScaffoldPackage |-> NoPkg,
         unsavedNodeEdits |-> FALSE,
         deleteElementRanges |-> {},
         region |-> NoRegion]

(***************************************************************************)
(* Inputs                                                                  *)
(***************************************************************************)
Edits == 1..MaxEdit

Rotations == 0..MaxRot

Elements == 1..MaxElem

ValidSettings(scaffoldType) ==
    CASE scaffoldType = "Box" -> {s \in [n : 1..MaxN, m : 1..MaxN] : s.m <= s.n}
      [] scaffoldType = "Tube" -> {[k |-> 1]}
      [] scaffoldType = "Ring" -> {[a |-> 2, b |-> b] : b \in 1..2}
      [] OTHER -> {}

\* packages without nested packages, as a settings file can hold them
SimplePackages ==
    UNION {[type : {t}, settings : ValidSettings(t), meshEdits : 0..MaxEdit,
            rotation : Rotations] : t \in {"Box", "Tube"}}

\* the packages of the settings files read: any package whose nested package,
\* if it has one, carries no mesh edits
RootPackages ==
    SimplePackages \cup
    [type : {"Ring"}, settings : ValidSettings("Ring"), meshEdits : 0..MaxEdit,
     rotation : Rotations] \cup
    [type : {"Heart"}, settings : [sub : {p \in SimplePackages : p.meshEdits = 0}],
     meshEdits : 0..MaxEdit, rotation : Rotations]

TypeNames == {AllScaffoldTypes[i] : i \in 1..Len(AllScaffoldTypes)} \cup {"Unknown"}

(***************************************************************************)
(* MasterModel.done: ms is the record of the creator model, the files      *)
(* written and the order of the steps taken                                *)
(***************************************************************************)
NoFile == [written |-> FALSE]

UpdateSettingsBeforeWrite(cm) == UpdateScaffoldEdits(cm)

\* the creator model's _settings as written to <stem>-settings.json
SaveSettings(ms) ==
    LET cm1 == UpdateSettingsBeforeWrite(ms.creator)
    IN  [ms EXCEPT !.creator = cm1,
                   !.settingsFile = [written |-> TRUE,
                                     scaffoldPackage |-> cm1.scaffoldPackages[1],
                                     deleteElementRanges |-> cm1.deleteElementRanges],
                   !.log = Append(@, "saveSettings")]

\* ScaffoldCreatorModel.done: the transformation is applied to the coordinates
CreatorDone(ms) ==
    IF ms.creator.raised THEN ms
    ELSE IF Depth(ms.creator) # 1
    THEN [ms EXCEPT !.creator.raised = TRUE]
    ELSE [ms EXCEPT !.creator.region.transformed = TRUE,
                    !.log = Append(@, "applyTransformation")]

WriteModel(ms) ==
    IF ms.creator.raised THEN ms
    ELSE [ms EXCEPT !.modelFile = [written |-> TRUE, region |-> ms.creator.region],
                    !.log = Append(@, "writeModel")]

WriteAnnotations(ms) ==
    IF ms.creator.raised THEN ms
    ELSE [ms EXCEPT !.log = Append(@, "writeAnnotations")]

ExportToVtk(ms) ==
    IF ms.creator.raised THEN ms
    ELSE [ms EXCEPT !.log = Append(@, "exportToVtk")]

\* mutant: the transformation is applied before the settings are saved
MasterDone_TransformFirst(ms) ==
    ExportToVtk(WriteAnnotations(WriteModel(SaveSettings(CreatorDone(ms)))))

MasterDone(ms) ==
    ExportToVtk(WriteAnnotations(WriteModel(CreatorDone(SaveSettings(ms)))))

(***************************************************************************)
(* State: one session of the widget on a MasterModel                       *)
(***************************************************************************)
VARIABLES
    creator,      \* the ScaffoldCreatorModel
    doneEnabled,  \* ScaffoldCreatorWidget: done_pushButton is enabled
    master,       \* MasterModel.done: files written by it and its steps
    session,      \* MasterModel settings, their file and the sessions using it
    step,         \* the ScaffoldCreator workflow step and its host
    annotation    \* the annotation groups of the packages being edited

vars == <<creator, doneEnabled, master, session, step, annotation>>

\* the parts of the state that the widget's handlers do not touch
NoSession == [phase |-> "none"]
NoStep == [phase |-> "none"]
NoAnnotation == [phase |-> "none"]

NoMaster == [settingsFile |-> NoFile, modelFile |-> NoFile, log |-> <<>>, done |-> FALSE]

Init ==
    /\ creator = InitCreator
    /\ doneEnabled \in BOOLEAN
    /\ master = NoMaster
    /\ session = NoSession
    /\ step = NoStep
    /\ annotation = NoAnnotation

\* the widget has a model and its region has been generated
Running == ~master.done /\ creator.region.exists

\* mutant: the button is enabled whatever is being edited
RefreshScaffoldOptions_AlwaysEnabled(cm) == TRUE

\* _refreshScaffoldOptions, as far as the Done button goes
RefreshScaffoldOptions(cm) == EditingRootScaffoldPackage(cm)

\* _graphicsInitialized: loadSettings, then _refreshOptions
GraphicsInitialized ==
    /\ ~master.done
    /\ ~creator.region.exists
    /\ \E scaffoldPackage \in RootPackages, elementRanges \in SUBSET Elements :
          LET cm == SetSettings(creator, scaffoldPackage, elementRanges)
          IN  /\ creator' = Model(cm)
    /\ doneEnabled' = TRUE
    /\ UNCHANGED <<master, session, step, annotation>>

\* _scaffoldTypeChanged
ScaffoldTypeChanged ==
    /\ Running
    /\ \E name \in TypeNames :
          LET cm == SetScaffoldTypeByName(creator, name)
          IN  /\ creator' = Model(cm)
              /\ doneEnabled' = IF cm.raised THEN doneEnabled ELSE RefreshScaffoldOptions(cm)
    /\ UNCHANGED <<master, session, step, annotation>>

\* _parameterSetChanged: a name of the combo box
ParameterSetChanged ==
    /\ Running
    /\ \E i \in 1..Len(GetAvailableParameterSetNames(creator)) :
          LET cm == SetParameterSetName(creator, GetAvailableParameterSetNames(creator)[i])
          IN  /\ creator' = Model(cm)
              /\ doneEnabled' = RefreshScaffoldOptions(cm)
    /\ UNCHANGED <<master, session, step, annotation>>

\* _meshTypeOptionLineEditChanged
MeshTypeOptionLineEditChanged ==
    /\ Running
    /\ \E key \in IntOptionNames(Top(creator).type), value \in OptionTexts :
          LET r == SetScaffoldOption(creator, key, value)
          IN  /\ creator' = Model(r.cm)
              /\ doneEnabled' = IF r.result = "True" THEN RefreshScaffoldOptions(r.cm)
                                ELSE doneEnabled
    /\ UNCHANGED <<master, session, step, annotation>>

\* _meshTypeOptionScaffoldPackageButtonPressed
MeshTypeOptionScaffoldPackageButtonPressed ==
    /\ Running
    /\ \E optionName \in PackageOptionNames(Top(creator).type) :
          LET cm == EditScaffoldPackageOption(creator, optionName)
          IN  /\ creator' = Model(cm)
              /\ doneEnabled' = RefreshScaffoldOptions(cm)
    /\ UNCHANGED <<master, session, step, annotation>>

\* _subscaffoldBackButtonPressed
SubscaffoldBackButtonPressed ==
    /\ Running
    /\ LET cm == EndEditScaffoldPackageOption(creator)
       IN  /\ creator' = Model(cm)
           /\ doneEnabled' = IF cm.raised THEN doneEnabled ELSE RefreshScaffoldOptions(cm)
    /\ UNCHANGED <<master, session, step, annotation>>

\* a node is edited in the scene viewer
NodeEdited ==
    /\ Running
    /\ \E e \in Edits :
          LET cm == GetOrCreateMeshEditsNodesetGroup(creator, e)
          IN  /\ creator' = Model(cm)
    /\ UNCHANGED <<doneEnabled, master, session, step, annotation>>

\* _rotationLineEditChanged, and interactionRotate from the scene viewer
RotationChanged ==
    /\ Running
    /\ \E rotation \in Rotations :
          LET cm == SetRotation(creator, rotation)
          IN  /\ creator' = Model(cm)
    /\ UNCHANGED <<doneEnabled, master, session, step, annotation>>

\* _deleteElementRangesLineEditChanged
DeleteElementRangesLineEditChanged ==
    /\ Running
    /\ \E elementRanges \in SUBSET Elements :
          LET cm == SetDeleteElementsRanges(creator, elementRanges)
          IN  /\ creator' = Model(cm)
    /\ UNCHANGED <<doneEnabled, master, session, step, annotation>>

\* _deleteElementsSelectionButtonPressed
DeleteElementsSelectionButtonPressed ==
    /\ Running
    /\ \E selection \in SUBSET Elements :
          LET cm == DeleteElementsSelection(creator, selection)
          IN  /\ creator' = Model(cm)
    /\ UNCHANGED <<doneEnabled, master, session, step, annotation>>

\* applyTransformation of the model
TransformationApplied ==
    /\ Running
    /\ \E e \in Edits :
          LET cm == ApplyTransformation(creator, e)
          IN  /\ creator' = Model(cm)
    /\ UNCHANGED <<doneEnabled, master, session, step, annotation>>

\* _meshTypeInteractiveFunctionButtonPressed, dialog accepted
InteractiveFunctionPerformed ==
    /\ Running
    /\ Top(creator).type = "Box"
    /\ \E newSettings \in ValidSettings("Box"), nodesChanged \in BOOLEAN, e \in Edits :
          LET cm == PerformInteractiveFunction(creator, newSettings, nodesChanged, e)
          IN  /\ creator' = Model(cm)
              /\ doneEnabled' = IF newSettings # Top(creator).settings
                                THEN RefreshScaffoldOptions(cm) ELSE doneEnabled
    /\ UNCHANGED <<master, session, step, annotation>>

\* _doneButtonClicked: MasterModel.done, after which the models are released
DoneButtonClicked ==
    /\ Running
    /\ doneEnabled
    /\ LET ms == MasterDone([creator |-> Begin(creator),
                             settingsFile |-> master.settingsFile,
                             modelFile |-> master.modelFile,
                             log |-> master.log])
       IN  /\ creator' = IF ms.creator.raised THEN Model(ms.creator) ELSE InitCreator
           /\ master' = [settingsFile |-> ms.settingsFile, modelFile |-> ms.modelFile,
                         log |-> ms.log, done |-> ~ms.creator.raised]
    /\ UNCHANGED <<doneEnabled, session, step, annotation>>

Next ==
    \/ GraphicsInitialized
    \/ ScaffoldTypeChanged
    \/ ParameterSetChanged
    \/ MeshTypeOptionLineEditChanged
    \/ MeshTypeOptionScaffoldPackageButtonPressed
    \/ SubscaffoldBackButtonPressed
    \/ NodeEdited
    \/ RotationChanged
    \/ DeleteElementRangesLineEditChanged
    \/ DeleteElementsSelectionButtonPressed
    \/ TransformationApplied
    \/ InteractiveFunctionPerformed
    \/ DoneButtonClicked

Spec == Init /\ [][Next]_vars

(***************************************************************************)
(* Settings persistence: MasterModel.loadSettings and _saveSettings over   *)
(* sessions sharing one <stem>-settings.json file.  Python dictionaries    *)
(* are functions from keys to tagged values; a value tagged "pkg" is a     *)
(* reference to a ScaffoldPackage object, and its field shared tells that  *)
(* it is the object passed to setSettings in this session, so that a       *)
(* change made in place to that object shows in every such reference.      *)
(***************************************************************************)
BoolV(b) == [t |-> "bool", v |-> b]
IntV(i) == [t |-> "int", v |-> i]
StrV(str) == [t |-> "str", v |-> str]
Dict(d) == [t |-> "dict", v |-> d]
Object(pairs) == [t |-> "object", v |-> pairs]
PackageRef(content, shared) == [t |-> "pkg", v |-> content, shared |-> shared]
EmptyDict == [k \in {} |-> 0]

\* settings['scaffold_settings'] = self._creator_model.getSettings(): the
\* creator model's own dictionary, not a copy of it
CreatorSettingsRef == [t |-> "ref", v |-> "creator"]

\* the keys in the order of json.dumps(..., sort_keys=True)
KeyOrder ==
    <<"AutoDone", "displayAxes", "displayNodeDerivatives", "generator_settings",
      "identifier", "meshEdits",
      "meshTypeName", "meshTypeOptions", "scaffoldPackage", "scaffoldSettings",
      "scaffoldTypeName", "scaffold_settings", "segmentation_data_settings">>

SortedKeys(d) == SelectSeq(KeyOrder, LAMBDA k : k \in DOMAIN d)

\* json.dumps with Scaffolds_JSONEncoder: a dictionary becomes an object with
\* its members in key order, a ScaffoldPackage the object of its toDict()
RECURSIVE EncodeValue(_, _)
EncodeValue(x, creatorSettings) ==
    CASE x.t = "ref" -> EncodeValue(Dict(creatorSettings), creatorSettings)
      [] x.t = "dict" ->
            LET keys == SortedKeys(x.v)
            IN  Object([i \in 1..Len(keys) |->
                           <<keys[i], EncodeValue(x.v[keys[i]], creatorSettings)>>])
      [] x.t = "pkg" ->
            Object(<< <<"meshEdits", IntV(x.v.meshEdits)>>,
                      <<"scaffoldSettings", IntV(x.v.n)>>,
                      <<"scaffoldTypeName", StrV(x.v.type)>> >>)
      [] OTHER -> x

\* json.loads with object_hook=Scaffolds_decodeJSON: an object holding
\* scaffoldTypeName becomes a new ScaffoldPackage, any other a dictionary
RECURSIVE DecodeValue(_)
DecodeValue(j) ==
    IF j.t = "object"
    THEN LET keys == {j.v[i][1] : i \in 1..Len(j.v)}
             member(k) == j.v[CHOOSE i \in 1..Len(j.v) : j.v[i][1] = k][2]
             d == [k \in keys |-> DecodeValue(member(k))]
         IN  IF "scaffoldTypeName" \in keys
             THEN PackageRef([type |-> d["scaffoldTypeName"].v,
                              n |-> d["scaffoldSettings"].v,
                              meshEdits |-> d["meshEdits"].v], FALSE)
             ELSE Dict(d)
    ELSE j

\* what a dictionary holds, whichever objects hold it
RECURSIVE Contents(_)
Contents(x) ==
    CASE x.t = "dict" -> Dict([k \in DOMAIN x.v |-> Contents(x.v[k])])
      [] x.t = "pkg" -> PackageRef(x.v, FALSE)
      [] OTHER -> x

\* a change made in place to the package object passed to setSettings
RECURSIVE ChangeShared(_, _)
ChangeShared(x, content) ==
    CASE x.t = "dict" -> Dict([k \in DOMAIN x.v |-> ChangeShared(x.v[k], content)])
      [] x.t = "pkg" -> IF x.shared THEN [x EXCEPT !.v = content] ELSE x
      [] OTHER -> x

\* ScaffoldCreatorModel.__init__: self._settings
InitCreatorSettings ==
    [scaffoldPackage |-> PackageRef([type |-> DefaultScaffoldType, n |-> 1,
                                     meshEdits |-> 0], FALSE),
     displayAxes |-> BoolV(TRUE),
     displayNodeDerivatives |-> IntV(0)]

\* MasterModel.__init__: self._settings
InitMasterSettings ==
    [segmentation_data_settings |-> Dict(EmptyDict)]

\* setSettings, the part that works on the dictionary passed in: it migrates
\* the dictionary in place and the model then holds the package object of it
MigrateSettings(settings) ==
    LET migrated ==
            IF "scaffoldPackage" \in DOMAIN settings
            THEN settings
            ELSE [k \in (DOMAIN settings \ {"meshTypeName", "meshTypeOptions"})
                          \cup {"scaffoldPackage"} |->
                     IF k = "scaffoldPackage"
                     THEN PackageRef([type |-> settings["meshTypeName"].v,
                                      n |-> settings["meshTypeOptions"].v,
                                      meshEdits |-> 0], FALSE)
                     ELSE settings[k]]
    IN  [migrated EXCEPT
            !["scaffoldPackage"].shared = TRUE,
            !["displayNodeDerivatives"] =
                IF @.t = "bool" THEN IntV(IF @.v THEN 2 ELSE 0) ELSE @]

\* _getSettings
GetSettings(mSettings) ==
    [k \in DOMAIN mSettings \cup {"scaffold_settings", "segmentation_data_settings"} |->
        IF k = "scaffold_settings" THEN CreatorSettingsRef
        ELSE IF k = "segmentation_data_settings" THEN Dict(EmptyDict)
        ELSE mSettings[k]]

NoDoc == [written |-> FALSE]

\* loadSettings of a new MasterModel; se holds file, mSettings, cSettings
LoadSettings(se) ==
    IF ~se.file.written
    THEN \* open() raises: the defaults of the creator model are passed to it
         [se EXCEPT !.mSettings = GetSettings(se.mSettings),
                    !.cSettings = MigrateSettings(se.cSettings),
                    !.passed = Contents(Dict(se.cSettings)),
                    !.phase = "loaded"]
    ELSE LET savedSettings == DecodeValue(se.file.doc).v
             settings == savedSettings @@ se.mSettings
             from == IF "generator_settings" \in DOMAIN settings THEN "generator_settings"
                     ELSE IF "scaffold_settings" \notin DOMAIN settings THEN "flat"
                     ELSE "scaffold_settings"
             scaffoldSettings == IF from = "flat" THEN settings ELSE settings[from].v
             migrated == MigrateSettings(scaffoldSettings)
             updated == IF from = "flat" THEN migrated
                        ELSE [settings EXCEPT ![from] = Dict(migrated)]
         IN  [se EXCEPT !.mSettings = GetSettings(updated),
                        !.cSettings = migrated @@ se.cSettings,
                        !.passed = Contents(Dict(scaffoldSettings)),
                        !.phase = "loaded"]

\* a change made in place to the package being edited (setScaffoldOption,
\* _updateScaffoldEdits, ...)
ChangePackage(se, content) ==
    IF se.cSettings["scaffoldPackage"].shared
    THEN [se EXCEPT !.mSettings = ChangeShared(Dict(@), content).v,
                    !.cSettings = ChangeShared(Dict(@), content).v]
    ELSE [se EXCEPT !.cSettings["scaffoldPackage"].v = content]

\* setParameterSetName, _setScaffoldType: a new package object is in
\* self._settings['scaffoldPackage']
ReplacePackage(se, content) ==
    [se EXCEPT !.cSettings["scaffoldPackage"] = PackageRef(content, FALSE),
               !.pendingEdits = 0]

\* updateSettingsBeforeWrite
SessionUpdateSettingsBeforeWrite(se) ==
    IF se.pendingEdits # 0
    THEN [ChangePackage(se, [se.cSettings["scaffoldPackage"].v EXCEPT
                                 !.meshEdits = se.pendingEdits])
             EXCEPT !.pendingEdits = 0]
    ELSE se

\* _saveSettings
SessionSaveSettings(se0) ==
    LET se == SessionUpdateSettingsBeforeWrite(se0)
        settings == GetSettings(se.mSettings)
    IN  [se EXCEPT !.mSettings = settings,
                   !.file = [written |-> TRUE,
                             doc |-> EncodeValue(Dict(settings), se.cSettings)],
                   !.savedScaffold = Contents(Dict(se.cSettings)),
                   !.fileFromSave = TRUE,
                   !.phase = "saved"]

PackageContents == [type : {"Box"}, n : 1..MaxN, meshEdits : 0..MaxEdit]

\* the dictionary of the creator model as the versions wrote it
SavedCreatorSettings ==
    {[scaffoldPackage |-> PackageRef(content, FALSE),
      displayAxes |-> BoolV(b),
      displayNodeDerivatives |-> IntV(0)] : content \in PackageContents, b \in BOOLEAN}

\* the settings files a first session can find: none, one of this version,
\* one of version 0.3.2 keyed by generator_settings, a flat one of 0.2.0
InitialFiles ==
    {NoDoc}
    \cup {[written |-> TRUE,
           doc |-> EncodeValue(Dict([scaffold_settings |-> Dict(d),
                                     segmentation_data_settings |-> Dict(EmptyDict)]), d)] :
             d \in SavedCreatorSettings}
    \cup {[written |-> TRUE,
           doc |-> EncodeValue(Dict([generator_settings |-> Dict(d),
                                     segmentation_data_settings |-> Dict(EmptyDict)]), d)] :
             d \in SavedCreatorSettings}
    \cup {[written |-> TRUE,
           doc |-> EncodeValue(Dict([meshTypeName |-> StrV("Box"),
                                     meshTypeOptions |-> IntV(n),
                                     displayAxes |-> BoolV(b),
                                     displayNodeDerivatives |-> BoolV(b2)]), EmptyDict)] :
             n \in 1..MaxN, b \in BOOLEAN, b2 \in BOOLEAN}

NewMasterModel(file, fileFromSave, savedScaffold) ==
    [phase |-> "new", file |-> file, mSettings |-> InitMasterSettings,
     cSettings |-> InitCreatorSettings, pendingEdits |-> 0,
     passed |-> Dict(EmptyDict), savedScaffold |-> savedScaffold,
     fileFromSave |-> fileFromSave]

InitSettings ==
    /\ creator = InitCreator
    /\ doneEnabled = FALSE
    /\ master = NoMaster
    /\ step = NoStep
    /\ annotation = NoAnnotation
    /\ \E file \in InitialFiles :
          session = NewMasterModel(file, FALSE, Dict(EmptyDict))

\* _graphicsInitialized: loadSettings
SettingsLoaded ==
    /\ session.phase = "new"
    /\ session' = LoadSettings(session)
    /\ UNCHANGED <<creator, doneEnabled, master, step, annotation>>

\* setDisplayAxes
DisplayAxesSet ==
    /\ session.phase = "loaded"
    /\ \E show \in BOOLEAN :
          session' = [session EXCEPT !.cSettings["displayAxes"] = BoolV(show)]
    /\ UNCHANGED <<creator, doneEnabled, master, step, annotation>>

\* setScaffoldOption with a changed value: the package changes in place and
\* its mesh edits are cleared
ScaffoldOptionSet ==
    /\ session.phase = "loaded"
    /\ \E n \in 1..MaxN :
          /\ n # session.cSettings["scaffoldPackage"].v.n
          /\ session' = [ChangePackage(session,
                            [session.cSettings["scaffoldPackage"].v EXCEPT
                                !.n = n, !.meshEdits = 0])
                           EXCEPT !.pendingEdits = 0]
    /\ UNCHANGED <<creator, doneEnabled, master, step, annotation>>

\* setParameterSetName with the name of a predefined parameter set
ParameterSetSelected ==
    /\ session.phase = "loaded"
    /\ \E n \in 1..MaxN :
          session' = ReplacePackage(session, [type |-> "Box", n |-> n, meshEdits |-> 0])
    /\ UNCHANGED <<creator, doneEnabled, master, step, annotation>>

\* a node is edited: the edit is in the region until it is captured
SessionNodeEdited ==
    /\ session.phase = "loaded"
    /\ \E e \in Edits : session' = [session EXCEPT !.pendingEdits = e]
    /\ UNCHANGED <<creator, doneEnabled, master, step, annotation>>

\* MasterModel.done: _saveSettings
SettingsSaved ==
    /\ session.phase = "loaded"
    /\ session' = SessionSaveSettings(session)
    /\ UNCHANGED <<creator, doneEnabled, master, step, annotation>>

\* the step is executed again: a new MasterModel on the same file
SessionStarted ==
    /\ session.phase = "saved"
    /\ session' = NewMasterModel(session.file, session.fileFromSave, session.savedScaffold)
    /\ UNCHANGED <<creator, doneEnabled, master, step, annotation>>

NextSettings ==
    \/ SettingsLoaded
    \/ DisplayAxesSet
    \/ ScaffoldOptionSet
    \/ ParameterSetSelected
    \/ SessionNodeEdited
    \/ SettingsSaved
    \/ SessionStarted

SpecSettings == InitSettings /\ [][NextSettings]_vars

\* C4 (as claimed): loadSettings of a new MasterModel on a file written by
\* _saveSettings passes to setSettings exactly the creator model's settings
\* that were current when the file was written, whatever the format of the
\* file that the first session read.
C4_SavedSettingsAreLoaded ==
    (session.phase = "loaded" /\ session.fileFromSave) =>
        session.passed = session.savedScaffold

\* C4 holds when the first session read no file, one of this version or a
\* flat one of version 0.2.0
(***************************************************************************)
(* The workflow step: ScaffoldCreator of step.py and the host that runs    *)
(* it.  File names are sequences of characters.                            *)
(***************************************************************************)
NoneValue == [some |-> FALSE]
Some(value) == [some |-> TRUE, value |-> value]

\* os.path.join(a, b)
PathJoin(a, b) ==
    IF Len(b) > 0 /\ b[1] = "/" THEN b
    ELSE IF Len(a) = 0 \/ a[Len(a)] = "/" THEN a \o b
    ELSE a \o <<"/">> \o b

ExfSuffix == <<".", "e", "x", "f">>
AnnotationsSuffix ==
    <<"_", "a", "n", "n", "o", "t", "a", "t", "i", "o", "n", "s", ".", "c", "s", "v">>

\* MasterModel.__init__, as far as the file names go
NewStepModel(location, identifier) ==
    [filenameStem |-> PathJoin(location, identifier)]

GetOutputModelFilename(model) == model.filenameStem \o ExfSuffix

\* getAnnotationsFilename(filename_stem)
GetAnnotationsFilename(filenameStem) == filenameStem \o AnnotationsSuffix

GetOutputAnnotationsFilename(model) == GetAnnotationsFilename(model.filenameStem)

\* ScaffoldCreator.__init__
InitStep(location) ==
    [phase |-> "step",
     location |-> location,
     identifier |-> <<>>,
     AutoDone |-> FALSE,
     configured |-> FALSE,
     portData0 |-> NoneValue,
     port1_inputZincDataFile |-> NoneValue,
     port2_annotationsFilename |-> NoneValue,
     model |-> NoneValue,
     view |-> NoneValue,
     executions |-> 0,
     host |-> [notified |-> 0, port0 |-> NoneValue, port2 |-> NoneValue,
               model |-> NoneValue, view |-> NoneValue, read |-> NoneValue]]

GetPortData(st, index) ==
    IF index = 0 THEN st.portData0 ELSE st.port2_annotationsFilename

SetPortData(st, index, dataIn) ==
    IF index = 1 THEN [st EXCEPT !.port1_inputZincDataFile = dataIn] ELSE st

\* execute
Execute(st) ==
    LET model == NewStepModel(st.location, st.identifier)
    IN  [st EXCEPT !.model = Some(model),
                   !.view = Some([doneCallback |-> "_myDoneExecution"]),
                   !.executions = @ + 1]

\* self._config
Config(st) == [identifier |-> StrV(st.identifier), AutoDone |-> BoolV(st.AutoDone)]

\* self._config = config, for a dictionary holding both keys
SetConfig(st, config) ==
    [st EXCEPT !.identifier = config["identifier"].v, !.AutoDone = config["AutoDone"].v]

\* the identifiers of the other steps of the workflow
OtherIdentifiers == {<<"b">>}

\* ConfigureDialog: setConfig shows a configuration, the user edits the
\* identifier shown, getConfig returns what is shown, and validate tells
\* whether the identifier shown is not empty and not that of another step
DialogSetConfig(config) == [config |-> config]

DialogEdit(dlg, identifier) == [dlg EXCEPT !.config["identifier"] = StrV(identifier)]

DialogGetConfig(dlg) == dlg.config

DialogValidate(dlg) ==
    /\ Len(dlg.config["identifier"].v) > 0
    /\ dlg.config["identifier"].v \notin OtherIdentifiers

\* mutant: only the identifier is written
Serialize_IdentifierOnly(st) ==
    EncodeValue(Dict([identifier |-> StrV(st.identifier)]), EmptyDict)

\* serialize: json.dumps(self._config, sort_keys=True)
Serialize(st) == EncodeValue(Dict(Config(st)), EmptyDict)

\* deserialize
Deserialize(st, string) ==
    LET st1 == SetConfig(st, DecodeValue(string).v @@ Config(st))
        d == DialogSetConfig(Config(st1))
    IN  [st1 EXCEPT !.configured = DialogValidate(d)]

\* configure: the dialog shows self._config, the user edits it and accepts
\* or cancels
Configure(st, identifier, accepted) ==
    LET dlg == DialogEdit(DialogSetConfig(Config(st)), identifier)
        st1 == IF accepted THEN SetConfig(st, DialogGetConfig(dlg)) ELSE st
    IN  [st1 EXCEPT !.configured = DialogValidate(dlg)]

\* self._doneExecution(): the host is told and looks at the step
DoneExecution(st) ==
    [st EXCEPT !.host = [notified |-> @.notified + 1,
                         port0 |-> GetPortData(st, 0),
                         port2 |-> GetPortData(st, 2),
                         model |-> st.model,
                         view |-> st.view,
                         read |-> @.read]]

\* mutant: the host is told before the port data are set
MyDoneExecution_NotifyFirst(st) ==
    LET st0 == DoneExecution(st)
        st1 == [st0 EXCEPT !.portData0 = Some(GetOutputModelFilename(st0.model.value))]
        st2 == [st1 EXCEPT !.port2_annotationsFilename =
                               Some(GetOutputAnnotationsFilename(st1.model.value))]
    IN  [st2 EXCEPT !.view = NoneValue, !.model = NoneValue]

\* _myDoneExecution
MyDoneExecution(st) ==
    LET st1 == [st EXCEPT !.portData0 = Some(GetOutputModelFilename(st.model.value))]
        st2 == [st1 EXCEPT !.port2_annotationsFilename =
                               Some(GetOutputAnnotationsFilename(st1.model.value))]
        st3 == [st2 EXCEPT !.view = NoneValue]
        st4 == [st3 EXCEPT !.model = NoneValue]
    IN  DoneExecution(st4)

MaxExecutions == 2
Locations == {<<"w">>, <<"/", "w">>}
Identifiers == {<<"a">>, <<"b">>, <<"a", "b">>}
DataFiles == {NoneValue, Some(<<"d">>)}
PortIndexes == {0, 1, 2}

\* the step configurations a workflow file can hold
SerializedConfigs ==
    {EncodeValue(Dict([identifier |-> StrV(identifier), AutoDone |-> BoolV(autoDone)]),
                 EmptyDict) :
        identifier \in Identifiers \cup {<<>>}, autoDone \in BOOLEAN}

InitStepSpec ==
    /\ creator = InitCreator
    /\ doneEnabled = FALSE
    /\ master = NoMaster
    /\ session = NoSession
    /\ annotation = NoAnnotation
    /\ \E location \in Locations : step = InitStep(location)

\* setIdentifier, while the workflow is edited
StepSetIdentifier ==
    /\ ~step.view.some
    /\ \E identifier \in Identifiers : step' = [step EXCEPT !.identifier = identifier]
    /\ UNCHANGED <<creator, doneEnabled, master, session, annotation>>

\* deserialize, when the host loads the workflow
StepDeserialize ==
    /\ ~step.view.some
    /\ \E string \in SerializedConfigs : step' = Deserialize(step, string)
    /\ UNCHANGED <<creator, doneEnabled, master, session, annotation>>

\* configure, when the configure icon of the step is clicked
StepConfigure ==
    /\ ~step.view.some
    /\ \E identifier \in Identifiers \cup {<<>>}, accepted \in BOOLEAN :
          step' = Configure(step, identifier, accepted)
    /\ UNCHANGED <<creator, doneEnabled, master, session, annotation>>

\* setPortData, by the host before it executes the step
StepSetPortData ==
    /\ ~step.view.some
    /\ \E index \in PortIndexes, dataIn \in DataFiles :
          step' = SetPortData(step, index, dataIn)
    /\ UNCHANGED <<creator, doneEnabled, master, session, annotation>>

StepExecute ==
    /\ ~step.view.some
    /\ step.executions < MaxExecutions
    /\ step' = Execute(step)
    /\ UNCHANGED <<creator, doneEnabled, master, session, annotation>>

\* _doneButtonClicked of the widget: the callback registered by execute
StepDoneButtonClicked ==
    /\ step.view.some
    /\ step' = MyDoneExecution(step)
    /\ UNCHANGED <<creator, doneEnabled, master, session, annotation>>

\* getPortData, by the host
StepGetPortData ==
    /\ \E index \in PortIndexes :
          step' = [step EXCEPT !.host.read = GetPortData(step, index)]
    /\ UNCHANGED <<creator, doneEnabled, master, session, annotation>>

NextStep ==
    \/ StepSetIdentifier
    \/ StepDeserialize
    \/ StepConfigure
    \/ StepSetPortData
    \/ StepExecute
    \/ StepDoneButtonClicked
    \/ StepGetPortData

SpecStep == InitStepSpec /\ [][NextStep]_vars

\* C10: when _myDoneExecution tells the host, getPortData(0) is
\* <location>/<identifier>.exf, getPortData(2) is
\* <location>/<identifier>_annotations.csv and _model and _view are None;
\* until an execution has completed getPortData returns None.
C10_PortDataSetBeforeHostNotified ==
    /\ [](step.host.notified = 0 =>
             /\ \A index \in PortIndexes : GetPortData(step, index) = NoneValue
             /\ step.host.read = NoneValue)
    /\ [][StepDoneButtonClicked =>
             /\ step'.host.notified = step.host.notified + 1
             /\ step'.host.port0 =
                    Some(step.location \o <<"/">> \o step.identifier \o ExfSuffix)
             /\ step'.host.port2 =
                    Some(step.location \o <<"/">> \o step.identifier \o AnnotationsSuffix)
             /\ step'.host.model = NoneValue
             /\ step'.host.view = NoneValue]_vars

\* C10 witness: the host has been told of a completed execution and reads the
\* file name of port 0 of a step with an identifier
C10_Witness ==
    /\ step.host.notified >= 1
    /\ step.identifier # <<>>
    /\ step.host.read = step.host.port0
    /\ step.host.read.some

(***************************************************************************)
(* Properties                                                              *)
(***************************************************************************)
PredefinedName(cm) ==
    \E i \in 1..Len(GetEditScaffoldParameterSetNames(cm)) :
        GetEditScaffoldParameterSetNames(cm)[i] = cm.parameterSetName

\* the package being edited, with the node edits of the region that are
\* pending written into it
Captured(cm) ==
    IF cm.unsavedNodeEdits
    THEN [Top(cm) EXCEPT !.meshEdits = cm.region.edits]
    ELSE Top(cm)

\* C1 (as claimed): whenever the parameter set name is a predefined name, the
\* package being edited equals the default package of that parameter set.
C1_PredefinedNameMeansDefaultPackage ==
    PredefinedName(creator) =>
        Top(creator) = GetDefaultScaffoldPackageForParameterSetName(creator,
                            creator.parameterSetName)

StackInvariant ==
    /\ Len(creator.scaffoldPackages) = Len(creator.scaffoldPackageOptionNames)
    /\ Len(creator.scaffoldPackages) >= 1
    /\ creator.scaffoldPackageOptionNames[1] = NoName
    /\ EditingRootScaffoldPackage(creator) <=> (Len(creator.scaffoldPackages) = 1)
    /\ Len(creator.scaffoldPackages) = 1 =>
          /\ EndEditScaffoldPackageOption(creator).raised
          /\ Model(EndEditScaffoldPackageOption(creator)) = creator

\* C2: the two stacks have the same length, at least 1, the first option name
\* is None, editing the root is the same as length 1, editScaffoldPackageOption
\* adds exactly one entry to both, endEditScaffoldPackageOption removes exactly
\* one and, at length 1, raises and changes nothing.
C2_StackDiscipline ==
    /\ [] StackInvariant
    /\ [][ /\ MeshTypeOptionScaffoldPackageButtonPressed =>
                /\ Len(creator'.scaffoldPackages) = Len(creator.scaffoldPackages) + 1
                /\ Len(creator'.scaffoldPackageOptionNames) =
                       Len(creator.scaffoldPackageOptionNames) + 1
           /\ SubscaffoldBackButtonPressed =>
                /\ Len(creator'.scaffoldPackages) = Len(creator.scaffoldPackages) - 1
                /\ Len(creator'.scaffoldPackageOptionNames) =
                       Len(creator.scaffoldPackageOptionNames) - 1 ]_vars

\* C2 witness: a nested package is being edited, so an entry has been pushed
C2_Witness ==
    /\ Len(creator.scaffoldPackages) = 2
    /\ Len(creator.scaffoldPackageOptionNames) = 2
    /\ ~EditingRootScaffoldPackage(creator)

\* C3 (as claimed): no operation that regenerates the mesh does so while node
\* edits are pending.
C3_NoPendingEditsAtRegeneration ==
    Running =>
        /\ \A elementRanges \in SUBSET Elements :
              ~SetDeleteElementsRanges(creator, elementRanges).genPending
        /\ \A selection \in SUBSET Elements :
              ~DeleteElementsSelection(creator, selection).genPending
        /\ \A i \in 1..Len(GetAvailableParameterSetNames(creator)) :
              ~SetParameterSetName(creator,
                    GetAvailableParameterSetNames(creator)[i]).genPending
        /\ \A key \in IntOptionNames(Top(creator).type), value \in OptionTexts :
              ~SetScaffoldOption(creator, key, value).cm.genPending
        /\ \A name \in TypeNames : ~SetScaffoldTypeByName(creator, name).genPending
        /\ \A optionName \in PackageOptionNames(Top(creator).type) :
              ~EditScaffoldPackageOption(creator, optionName).genPending
        /\ ~EndEditScaffoldPackageOption(creator).genPending
        /\ \A scaffoldPackage \in RootPackages :
              ~SetSettings(creator, scaffoldPackage, {}).genPending

\* C5 (as claimed): after setScaffoldOption has changed the option's value, and
\* after a node edit has been announced, the parameter set name is 'Custom' and,
\* if it was not before, the custom-parameters callback has been invoked.
C5_CustomAfterOptionChangeOrNodeEdit ==
    Running =>
        /\ \A key \in IntOptionNames(Top(creator).type), value \in OptionTexts :
              LET r == SetScaffoldOption(creator, key, value)
              IN  Top(r.cm).settings[key] # Top(creator).settings[key] =>
                     /\ r.cm.parameterSetName = "Custom"
                     /\ creator.parameterSetName # "Custom" => r.cm.callbacks >= 1
        /\ \A e \in Edits :
              LET cm == GetOrCreateMeshEditsNodesetGroup(creator, e)
              IN  /\ cm.parameterSetName = "Custom"
                  /\ creator.parameterSetName # "Custom" => cm.callbacks >= 1

\* the model after setParameterSetName(name) then setParameterSetName('Custom')
RoundTrip(cm, name) ==
    SetParameterSetName(Model(SetParameterSetName(cm, name)), "Custom")

\* C6: with the parameter set 'Custom', choosing a predefined parameter set and
\* then 'Custom' again gives back the package as it was, its pending node
\* edits captured, under the name 'Custom'.
C6_CustomRoundTrip ==
    (Running /\ creator.parameterSetName = "Custom") =>
        \A i \in 1..Len(GetEditScaffoldParameterSetNames(creator)) :
            LET cm == RoundTrip(creator, GetEditScaffoldParameterSetNames(creator)[i])
            IN  /\ Top(cm) = Captured(creator)
                /\ cm.parameterSetName = "Custom"
                /\ ~cm.unsavedNodeEdits
                /\ cm.region.edits = Captured(creator).meshEdits
                /\ Depth(cm) = Depth(creator)

\* C6 witness: 'Custom' is in use with a node edit pending that differs from the
\* package's mesh edits, and the round trip brings it back in the package
C6_Witness ==
    /\ Running
    /\ creator.parameterSetName = "Custom"
    /\ creator.unsavedNodeEdits
    /\ creator.region.edits # Top(creator).meshEdits
    /\ Top(RoundTrip(creator, GetEditScaffoldParameterSetNames(creator)[1])).meshEdits
          = creator.region.edits

\* C7: endEditScaffoldPackageOption leaves the parent as the package being
\* edited, unchanged but for the option, which holds the nested package as last
\* edited with its pending node edits captured.
C7_EndEditStoresNested ==
    [][ SubscaffoldBackButtonPressed =>
          LET d == Depth(creator)
              optionName == creator.scaffoldPackageOptionNames[d]
          IN  /\ Depth(creator') = d - 1
              /\ Top(creator') = [creator.scaffoldPackages[d - 1] EXCEPT
                                     !.settings[optionName] = Captured(creator)] ]_vars

\* C7 witness: back at the root, the nested package stored in the option
\* carries mesh edits, which no settings file read has
C7_Witness ==
    /\ Depth(creator) = 1
    /\ Top(creator).type = "Heart"
    /\ Top(creator).settings.sub.meshEdits # 0

\* C8: done writes the settings, with the pending node edits captured and the
\* transformation still in the package and not in the coordinates, then
\* applies the transformation, then writes the model, the annotations and
\* the VTK export.
C8_DoneOrder ==
    [][ DoneButtonClicked =>
          /\ master'.settingsFile.written
          /\ master'.settingsFile.scaffoldPackage = Captured(creator)
          /\ master'.settingsFile.scaffoldPackage.meshEdits >= 0
          /\ master'.log = <<"saveSettings", "applyTransformation", "writeModel",
                             "writeAnnotations", "exportToVtk">>
          /\ master'.modelFile.written
          /\ master'.modelFile.region.transformed ]_vars

\* C8 witness: done has run on a rotated package that had a node edit pending
C8_Witness ==
    /\ master.done
    /\ master.settingsFile.scaffoldPackage.rotation # 0
    /\ master.settingsFile.scaffoldPackage.meshEdits # 0
    /\ master.modelFile.written

\* C9: once the widget shows the generated scaffold the Done button is enabled
\* exactly when the root package is being edited, and done never stops at its
\* assertion (in which case only the settings would have been written).
C9_DoneOnlyAtRoot ==
    /\ (creator.region.exists /\ ~master.done) =>
            (doneEnabled <=> EditingRootScaffoldPackage(creator))
    /\ master.log # <<>> => master.done

\* C9 witness: a nested package is being edited and the button is disabled
C9_Witness ==
    /\ Depth(creator) = 2
    /\ ~doneEnabled

\* C11: deserialize(serialize()) leaves _config unchanged, and deserializing
\* the serialized form of a configuration into a newly constructed step gives
\* that configuration.
C11_SerializeDeserializeOpposites ==
    /\ Config(Deserialize(step, Serialize(step))) = Config(step)
    /\ Config(Deserialize(InitStep(step.location), Serialize(step))) = Config(step)

\* C11 witness: a configuration with AutoDone set, which only deserialize
\* makes, and an identifier
C11_Witness ==
    /\ step.AutoDone
    /\ step.identifier = <<"a", "b">>

\* C12 (as claimed): after configure, accepted or cancelled, and after
\* deserialize, _configured tells whether the configuration stored in _config
\* is complete; it is False at construction.
C12_ConfiguredMatchesStoredConfig ==
    /\ \A location \in Locations : ~InitStep(location).configured
    /\ [][(StepConfigure \/ StepDeserialize) =>
              (step'.configured <=> DialogValidate(DialogSetConfig(Config(step'))))]_vars
(***************************************************************************)
(* Annotation groups of the package being edited.  A group is an object of *)
(* scaffoldmaker: generation tells the mesh generation that made it, so    *)
(* that the groups of a regenerated package are new objects.  A package    *)
(* holds the automatic groups of its scaffold type, its user groups and    *)
(* the stored form of the user groups from which generate() remakes them.  *)
(***************************************************************************)
MaxGenerations == 2
MaxUserGroups == 2

NoGroup == [name |-> "None"]
AnnotationGroup(name, isMarker, generation) ==
    [name |-> name, isMarker |-> isMarker, generation |-> generation]

\* the automatic annotation groups of the scaffold types
AutoAnnotationGroupNames(scaffoldType) ==
    IF scaffoldType = "Heart" THEN <<"heart", "skin">> ELSE <<"skin">>

\* the names createUserAnnotationGroup of scaffoldmaker gives, in its order
UserGroupNames == <<"group1", "group2", "group3">>

\* names of fields of the region that are not annotation groups
ReservedFieldNames == {"coordinates"}

\* nested is the stored form of the user groups of the package that is the
\* value of the package option of a Heart
AnnotationPackage(scaffoldType, userDict) ==
    [type |-> scaffoldType, userDict |-> userDict, auto |-> <<>>, user |-> <<>>,
     nested |-> <<>>]

TopPackage(an) == an.packages[Len(an.packages)]

\* getAnnotationGroups
GetAnnotationGroups(an) == TopPackage(an).auto \o TopPackage(an).user

GroupNames(groups) == {groups[i].name : i \in 1..Len(groups)}

\* findAnnotationGroupByName
FindAnnotationGroupByName(groups, name) ==
    IF name \in GroupNames(groups)
    THEN groups[CHOOSE i \in 1..Len(groups) :
                    /\ groups[i].name = name
                    /\ \A j \in 1..(i - 1) : groups[j].name # name]
    ELSE NoGroup

\* isUserAnnotationGroup
IsUserAnnotationGroup(an, annotationGroup) ==
    \E i \in 1..Len(TopPackage(an).user) : TopPackage(an).user[i] = annotationGroup

\* setCurrentAnnotationGroup
SetCurrentAnnotationGroup(an, annotationGroup) ==
    [an EXCEPT !.current = annotationGroup]

\* setCurrentAnnotationGroupByName
SetCurrentAnnotationGroupByName(an, annotationGroupName) ==
    SetCurrentAnnotationGroup(an,
        FindAnnotationGroupByName(GetAnnotationGroups(an), annotationGroupName))

\* ScaffoldPackage.createUserAnnotationGroup: a group with the first name
\* not in use
PackageCreateUserAnnotationGroup(an, isMarker) ==
    LET used == GroupNames(GetAnnotationGroups(an))
        name == UserGroupNames[CHOOSE i \in 1..Len(UserGroupNames) :
                    /\ UserGroupNames[i] \notin used
                    /\ \A j \in 1..(i - 1) : UserGroupNames[j] \in used]
        group == AnnotationGroup(name, isMarker, an.generation)
    IN  [an EXCEPT !.packages[Len(an.packages)].user = Append(@, group),
                   !.current = group]

\* createUserAnnotationGroup
CreateUserAnnotationGroup(an) == PackageCreateUserAnnotationGroup(an, FALSE)

\* createUserMarkerAnnotationGroup
CreateUserMarkerAnnotationGroup(an) == PackageCreateUserAnnotationGroup(an, TRUE)

\* deleteAnnotationGroup
DeleteAnnotationGroup(an, annotationGroup) ==
    IF IsUserAnnotationGroup(an, annotationGroup)
    THEN LET an1 == [an EXCEPT !.packages[Len(an.packages)].user =
                         SelectSeq(@, LAMBDA g : g # annotationGroup)]
         IN  [an |-> IF annotationGroup = an.current
                     THEN SetCurrentAnnotationGroup(an1, NoGroup) ELSE an1,
              result |-> TRUE]
    ELSE [an |-> an, result |-> FALSE]

\* AnnotationGroup.setName: the name of the group object changes unless a
\* field of the region has the name
GroupSetName(an, newName) ==
    IF newName \in ReservedFieldNames \cup GroupNames(GetAnnotationGroups(an))
    THEN [an |-> an, result |-> FALSE]
    ELSE [an |-> [an EXCEPT
                     !.packages[Len(an.packages)].user =
                         [i \in 1..Len(@) |-> IF @[i] = an.current
                                              THEN [@[i] EXCEPT !.name = newName]
                                              ELSE @[i]],
                     !.current.name = newName],
          result |-> TRUE]

\* mutant: the name is not looked up among the annotation groups
SetName_NoInUseCheck(an, newName) ==
    IF an.current = NoGroup THEN [an |-> an, result |-> FALSE]
    ELSE IF an.current.name = newName THEN [an |-> an, result |-> TRUE]
    ELSE IF ~IsUserAnnotationGroup(an, an.current) THEN [an |-> an, result |-> FALSE]
    ELSE IF newName \in ReservedFieldNames THEN [an |-> an, result |-> FALSE]
    ELSE [an |-> [an EXCEPT
                     !.packages[Len(an.packages)].user =
                         [i \in 1..Len(@) |-> IF @[i] = an.current
                                              THEN [@[i] EXCEPT !.name = newName]
                                              ELSE @[i]],
                     !.current.name = newName],
          result |-> TRUE]

\* setCurrentAnnotationGroupName
SetCurrentAnnotationGroupName(an, newName) ==
    IF an.current = NoGroup THEN [an |-> an, result |-> FALSE]
    ELSE IF an.current.name = newName THEN [an |-> an, result |-> TRUE]
    ELSE IF ~IsUserAnnotationGroup(an, an.current) THEN [an |-> an, result |-> FALSE]
    ELSE IF FindAnnotationGroupByName(GetAnnotationGroups(an), newName) # NoGroup
         THEN [an |-> an, result |-> FALSE]
    ELSE GroupSetName(an, newName)

\* ScaffoldPackage.updateUserAnnotationGroups, called by _updateScaffoldEdits
UpdateUserAnnotationGroups(an) ==
    [an EXCEPT !.packages[Len(an.packages)].userDict =
        [i \in 1..Len(TopPackage(an).user) |->
            [name |-> TopPackage(an).user[i].name,
             isMarker |-> TopPackage(an).user[i].isMarker]]]

\* ScaffoldPackage.generate: the groups of the package are made anew
\* (the generation numbers are used again after MaxGenerations of them)
PackageGenerate(an) ==
    LET generation == (an.generation % MaxGenerations) + 1
        p == TopPackage(an)
        names == AutoAnnotationGroupNames(p.type)
    IN  [an EXCEPT
            !.generation = generation,
            !.packages[Len(an.packages)].auto =
                [i \in 1..Len(names) |-> AnnotationGroup(names[i], FALSE, generation)],
            !.packages[Len(an.packages)].user =
                [i \in 1..Len(p.userDict) |->
                    AnnotationGroup(p.userDict[i].name, p.userDict[i].isMarker, generation)]]

\* mutant: the current group is kept over the regeneration
GenerateMeshAnnotation_KeepsCurrent(an) == PackageGenerate(an)

\* _generateMesh, as far as the annotation groups go
GenerateMeshAnnotation(an) ==
    LET currentAnnotationGroupName == an.current.name
    IN  SetCurrentAnnotationGroupByName(PackageGenerate(an), currentAnnotationGroupName)

\* __init__
InitAnnotation ==
    [phase |-> "annotation",
     packages |-> <<AnnotationPackage("Heart", <<>>)>>,
     current |-> NoGroup,
     generation |-> 0]

\* the user groups a settings file can hold
SavedUserGroups ==
    {<<>>, <<[name |-> "group1", isMarker |-> FALSE]>>}

\* the names typed for an annotation group
NewNames == {"skin", "group3", "coordinates"}

InitAnnotationSpec ==
    /\ creator = InitCreator
    /\ doneEnabled = FALSE
    /\ master = NoMaster
    /\ session = NoSession
    /\ step = NoStep
    /\ annotation = InitAnnotation

AnnotationRunning == annotation.generation > 0

\* the number of user groups of the package being edited and of those stored
\* in its package option and in the packages below it, which MaxUserGroups
\* bounds
UserGroupCount(an) ==
    LET Stored[i \in 0..(Len(an.packages) - 1)] ==
            IF i = 0 THEN 0 ELSE Stored[i - 1] + Len(an.packages[i].userDict)
    IN  Stored[Len(an.packages) - 1] + Len(TopPackage(an).user)
            + Len(TopPackage(an).nested)

\* setSettings: the package of the settings file is generated
AnnotationSettingsLoaded ==
    /\ annotation.generation = 0
    /\ \E scaffoldType \in {"Heart", "Tube"}, userDict \in SavedUserGroups,
          nested \in SavedUserGroups :
          /\ scaffoldType = "Tube" => nested = <<>>
          /\ annotation' = GenerateMeshAnnotation(
                 [annotation EXCEPT !.packages =
                     <<[AnnotationPackage(scaffoldType, userDict) EXCEPT
                           !.nested = nested]>>])
    /\ UNCHANGED <<creator, doneEnabled, master, session, step>>

\* _annotationGroupChanged: '-' or the name of a group is chosen
AnnotationGroupChanged ==
    /\ AnnotationRunning
    /\ \E name \in GroupNames(GetAnnotationGroups(annotation)) \cup {"-"} :
          annotation' = SetCurrentAnnotationGroupByName(annotation, name)
    /\ UNCHANGED <<creator, doneEnabled, master, session, step>>

\* _annotationGroupNewButtonClicked
AnnotationGroupNewButtonClicked ==
    /\ AnnotationRunning
    /\ UserGroupCount(annotation) < MaxUserGroups
    /\ annotation' = CreateUserAnnotationGroup(annotation)
    /\ UNCHANGED <<creator, doneEnabled, master, session, step>>

\* _annotationGroupNewMarkerButtonClicked
AnnotationGroupNewMarkerButtonClicked ==
    /\ AnnotationRunning
    /\ UserGroupCount(annotation) < MaxUserGroups
    /\ annotation' = CreateUserMarkerAnnotationGroup(annotation)
    /\ UNCHANGED <<creator, doneEnabled, master, session, step>>

\* _annotationGroupDeleteButtonClicked, confirmed
AnnotationGroupDeleteButtonClicked ==
    /\ AnnotationRunning
    /\ annotation.current # NoGroup
    /\ annotation' = DeleteAnnotationGroup(annotation, annotation.current).an
    /\ UNCHANGED <<creator, doneEnabled, master, session, step>>

\* _annotationGroupNameLineEditChanged
AnnotationGroupNameLineEditChanged ==
    /\ AnnotationRunning
    /\ \E newName \in NewNames :
          annotation' = SetCurrentAnnotationGroupName(annotation, newName).an
    /\ UNCHANGED <<creator, doneEnabled, master, session, step>>

\* an operation that regenerates the mesh of the package being edited, with
\* or without _updateScaffoldEdits before it (setScaffoldOption,
\* setDeleteElementsRangesText, deleteElementsSelection, ...)
AnnotationMeshRegenerated ==
    /\ AnnotationRunning
    /\ \E updated \in BOOLEAN :
          annotation' = GenerateMeshAnnotation(
              IF updated THEN UpdateUserAnnotationGroups(annotation) ELSE annotation)
    /\ UNCHANGED <<creator, doneEnabled, master, session, step>>

\* setScaffoldTypeByName: a new package of the type replaces that edited
AnnotationScaffoldTypeChanged ==
    /\ AnnotationRunning
    /\ \E scaffoldType \in {"Heart", "Tube"} :
          /\ scaffoldType # TopPackage(annotation).type
          /\ Len(annotation.packages) = 1 \/ scaffoldType = "Tube"
          /\ annotation' = GenerateMeshAnnotation(
                 [annotation EXCEPT !.packages[Len(annotation.packages)] =
                                        AnnotationPackage(scaffoldType, <<>>)])
    /\ UNCHANGED <<creator, doneEnabled, master, session, step>>

\* editScaffoldPackageOption: the nested package of the option is edited;
\* it is the object the option holds, here moved to the top of the stack.
\* The groups of the parent package are not stored first; they go with the
\* region that is removed, and the parent is generated anew on the way back.
AnnotationNestedEdited ==
    /\ AnnotationRunning
    /\ TopPackage(annotation).type = "Heart"
    /\ Len(annotation.packages) = 1
    /\ annotation' = GenerateMeshAnnotation(
           [annotation EXCEPT
               !.packages = <<[TopPackage(annotation) EXCEPT
                                  !.auto = <<>>, !.user = <<>>, !.nested = <<>>],
                              AnnotationPackage("Tube", TopPackage(annotation).nested)>>])
    /\ UNCHANGED <<creator, doneEnabled, master, session, step>>

\* endEditScaffoldPackageOption: the nested package is stored in the option
\* of the parent package, which is edited again
AnnotationNestedEnded ==
    /\ AnnotationRunning
    /\ Len(annotation.packages) > 1
    /\ LET an == UpdateUserAnnotationGroups(annotation)
           d == Len(an.packages)
       IN  annotation' = GenerateMeshAnnotation(
               [an EXCEPT !.packages =
                   [SubSeq(@, 1, d - 1) EXCEPT ![d - 1].nested = TopPackage(an).userDict]])
    /\ UNCHANGED <<creator, doneEnabled, master, session, step>>

NextAnnotation ==
    \/ AnnotationSettingsLoaded
    \/ AnnotationGroupChanged
    \/ AnnotationGroupNewButtonClicked
    \/ AnnotationGroupNewMarkerButtonClicked
    \/ AnnotationGroupDeleteButtonClicked
    \/ AnnotationGroupNameLineEditChanged
    \/ AnnotationMeshRegenerated
    \/ AnnotationScaffoldTypeChanged
    \/ AnnotationNestedEdited
    \/ AnnotationNestedEnded

SpecAnnotation == InitAnnotationSpec /\ [][NextAnnotation]_vars

UniqueNames(groups) ==
    \A i, j \in 1..Len(groups) : groups[i].name = groups[j].name => i = j

CurrentIsNoneOrListed(an) ==
    \/ an.current = NoGroup
    \/ \E i \in 1..Len(GetAnnotationGroups(an)) : GetAnnotationGroups(an)[i] = an.current

\* C14: the current annotation group is None or one of the groups of the
\* package being edited; deleting it sets it to None, a failed deletion leaves
\* it, and a regeneration selects the group of its name or None.
C14_CurrentGroupIsListed ==
    /\ CurrentIsNoneOrListed(annotation)
    /\ \A i \in 1..Len(GetAnnotationGroups(annotation)) :
          LET group == GetAnnotationGroups(annotation)[i]
              r == DeleteAnnotationGroup(annotation, group)
          IN  /\ (r.result /\ group = annotation.current) => r.an.current = NoGroup
              /\ ~r.result => r.an = annotation
              /\ CurrentIsNoneOrListed(r.an)
    /\ LET an == GenerateMeshAnnotation(annotation)
       IN  /\ CurrentIsNoneOrListed(an)
           /\ an.current =
                  FindAnnotationGroupByName(GetAnnotationGroups(an), annotation.current.name)

\* C14 witness: a group made by an earlier generation was current and the
\* group of its name in the regenerated package is current now
C14_Witness ==
    /\ annotation.generation >= 2
    /\ annotation.current # NoGroup
    /\ annotation.current.generation = annotation.generation
    /\ annotation.current.name = "skin"
    /\ Len(annotation.packages) = 2
\* what setScaffoldOption does for text that is not a number: nothing
NoEffect(r) ==
    /\ r.result = "None"
    /\ Model(r.cm) = creator
    /\ ~r.cm.generated
    /\ r.cm.callbacks = 0
    /\ ~r.cm.raised

C16_RegeneratedWhenSettingsChanged ==
    creator.region.exists =>
        \A key \in IntOptionNames(Top(creator).type), value \in OptionTexts :
            LET r == SetScaffoldOption(creator, key, value)
            IN  Top(r.cm).settings # Top(creator).settings =>
                    /\ Top(r.cm).meshEdits = 0
                    /\ ~r.cm.unsavedNodeEdits
                    /\ r.cm.parameterSetName = "Custom"
                    /\ r.cm.generated

Listed(name, names) ==
    \E i \in 1..Len(names) : names[i] = name

\* a real scaffold package: one of a known scaffold type with all its options
RealPackage(p) ==
    /\ p # NoPkg
    /\ Listed(p.type, AllScaffoldTypes)
    /\ DOMAIN p.settings = DOMAIN DefaultOptions(p.type, ParameterSetNames(p.type)[1])

OperationResults ==
    IF ~creator.region.exists
    THEN {SetSettings(creator, scaffoldPackage, elementRanges) :
              scaffoldPackage \in RootPackages, elementRanges \in SUBSET Elements}
    ELSE {SetScaffoldTypeByName(creator, name) : name \in TypeNames}
         \cup {SetParameterSetName(creator, GetAvailableParameterSetNames(creator)[i]) :
                   i \in 1..Len(GetAvailableParameterSetNames(creator))}
         \cup {SetScaffoldOption(creator, key, value).cm :
                   key \in IntOptionNames(Top(creator).type), value \in OptionTexts}
         \cup {EditScaffoldPackageOption(creator, optionName) :
                   optionName \in PackageOptionNames(Top(creator).type)}
         \cup {EndEditScaffoldPackageOption(creator)}
         \cup {GetOrCreateMeshEditsNodesetGroup(creator, e) : e \in Edits}
         \cup {SetRotation(creator, rotation) : rotation \in Rotations}
         \cup {SetDeleteElementsRanges(creator, elementRanges) :
                   elementRanges \in SUBSET Elements}
         \cup {DeleteElementsSelection(creator, selection) : selection \in SUBSET Elements}
         \cup {ApplyTransformation(creator, e) : e \in Edits}
         \cup {PerformInteractiveFunction(creator, newSettings, nodesChanged, e) :
                   newSettings \in ValidSettings(Top(creator).type),
                   nodesChanged \in BOOLEAN, e \in Edits}

====
